---- MODULE Spec2Model ----
(***************************************************************************)
(* A model of tuneapi: the REST facade of app.py and the operations it     *)
(* delegates to (run.py, cp.py, download.py, ls.py, configs.py,            *)
(* validate.py).                                                           *)
(*                                                                         *)
(* A string that the code takes apart (a name, a module path, a file name) *)
(* is a sequence of tokens in which "/" and "." stand alone: "m/a" is      *)
(* <<"m", "/", "a">> and "f.py" is <<"f", ".", "py">>.  A filesystem path  *)
(* is the sequence of its components, each such a string; the empty path   *)
(* is the working directory.  An exception is a record of its class and    *)
(* its message, the message being the f-string's template with the value   *)
(* it interpolates.                                                        *)
(***************************************************************************)
EXTENDS Integers, Sequences, FiniteSets, TLC

VARIABLES
    registry,   \* what _recipe_registry.get_all_recipes() returns
    fs,         \* the filesystem: path -> node
    sys_path,   \* sys.path
    sys_argv,   \* sys.argv
    calls,      \* the calls the last operation made into the libraries
    last,       \* the last operation: its name, arguments, exception, result
    response,   \* the HTTP response of the last request
    nops        \* the number of operations so far

vars == <<registry, fs, sys_path, sys_argv, calls, last, response, nops>>

(***************************************************************************)
(* Bounds                                                                  *)
(***************************************************************************)
MaxOps == 2

(***************************************************************************)
(* Strings and exceptions                                                  *)
(***************************************************************************)
NoStr == <<>>

Replace(s, old, new) == [i \in DOMAIN s |-> IF s[i] = old THEN new ELSE s[i]]

NoExc == [kind |-> "None", fmt |-> "", arg |-> NoStr]

Exc(kind, fmt, arg) == [kind |-> kind, fmt |-> fmt, arg |-> arg]

Raised(e) == e.kind # "None"

\* The library calls that can fail: how the call ends is the environment's
\* choice.
ExtOutcomes == {"ok", "fail"}

ExtFailure == Exc("RuntimeError", "library call failed", NoStr)

(***************************************************************************)
(* The registry                                                            *)
(***************************************************************************)
SeqsUpTo(S, n) == UNION {[1..k -> S] : k \in 0..n}

Unique(s) == \A i, j \in DOMAIN s : i # j => s[i] # s[j]

\* The sequences without repetition over S
UniqueSeqs(S) == {s \in SeqsUpTo(S, Cardinality(S)) : Unique(s)}

PY == <<".", "py">>

YAML == <<".", "yaml">>

\* s.split(sep), from the left
RECURSIVE Split(_, _)
Split(s, sep) ==
    IF \E i \in DOMAIN s : s[i] = sep
    THEN LET i == CHOOSE k \in DOMAIN s : s[k] = sep /\ \A j \in 1..(k - 1) : s[j] # sep
         IN  <<SubSeq(s, 1, i - 1)>> \o Split(SubSeq(s, i + 1, Len(s)), sep)
    ELSE <<s>>

\* The registry's files: the recipe named n is the file n.py, and its config
\* named c the file n/c.yaml
WithExt(path, ext) == [path EXCEPT ![Len(path)] = @ \o ext]

Config(recipe, name) ==
    [name |-> name, file_path |-> WithExt(Split(recipe, "/") \o Split(name, "/"), YAML)]

Recipe(name, cfgs, dist) ==
    [name |-> name,
     file_path |-> WithExt(Split(name, "/"), PY),
     configs |-> [i \in DOMAIN cfgs |-> Config(name, cfgs[i])],
     supports_distributed |-> dist]

\* The snapshots over the given names: recipe names are unique in a
\* snapshot, and so are the config names of a recipe.
RegistriesOver(rnames, cnames, dists) ==
    LET recipes == {Recipe(n, c, d) : n \in rnames, c \in UniqueSeqs(cnames), d \in dists}
    IN  {r \in SeqsUpTo(recipes, Cardinality(rnames)) :
            \A i, j \in DOMAIN r : i # j => r[i].name # r[j].name}

ROOT == <<<<"ROOT">>>>

\* next((r for r in items if r.name == name), None): the index of the first
\* match, 0 for None
FirstNamed(items, name) ==
    IF \E i \in DOMAIN items : items[i].name = name
    THEN CHOOSE i \in DOMAIN items :
            /\ items[i].name = name
            /\ \A j \in 1..(i - 1) : items[j].name # name
    ELSE 0

(***************************************************************************)
(* run.py                                                                  *)
(***************************************************************************)
CWD == <<<<"cwd">>>>

\* A string that is no path
Flag(s) == <<s>>

NoCall == <<>>

LaunchCall(script, script_args, nproc, rdzv, standalone, module) ==
    [fn |-> "torch.distributed.run.run", target |-> script, args |-> script_args,
     nproc |-> nproc, rdzv |-> rdzv, standalone |-> standalone, module |-> module]

RunpyCall(fn, target, argv) ==
    [fn |-> fn, target |-> target, args |-> argv,
     nproc |-> 0, rdzv |-> NoStr, standalone |-> FALSE, module |-> FALSE]

\* The effect of a call into run.py: the exception it ends with, sys.path
\* and sys.argv after it, the library calls it made
RunEffect(exc, path, argv, made) ==
    [exc |-> exc, sys_path |-> path, sys_argv |-> argv, calls |-> made]

_run_distributed(path, argv, recipe_path, config_path, is_builtin, num_processes, rdzv_endpoint, ext) ==
    RunEffect(IF ext = "ok" THEN NoExc ELSE ExtFailure, path, argv,
              <<LaunchCall(recipe_path, <<Flag("--config"), config_path>>, num_processes,
                           rdzv_endpoint, rdzv_endpoint = NoStr, ~is_builtin)>>)

_run_single_device(path, recipe_path, config_path, is_builtin, ext) ==
    LET argv == <<recipe_path, Flag("--config"), config_path>>
    IN  RunEffect(IF ext = "ok" THEN NoExc ELSE ExtFailure, path, argv,
                  <<RunpyCall(IF is_builtin THEN "runpy.run_path" ELSE "runpy.run_module",
                              recipe_path, argv)>>)

\* A runner that launches whatever the recipe supports
DistributedNeverRefused(distributed, supports_distributed) == FALSE

\* The check of run.py:64
DistributedRefused(distributed, supports_distributed) ==
    distributed /\ ~supports_distributed

\* The second lookup of run.py:52-53: it reads recipe.configs again, whether
\* or not a recipe was found
SecondLookupFails(ri, ci) == ci = 0 /\ ri = 0

\* run.py:39-46: the path of the recipe, given the index of the recipe found
\* (0 for None)
recipe_path_of(reg, ri, recipe_name) ==
    IF ri = 0 THEN Replace(recipe_name, "/", ".")
    ELSE ROOT \o <<<<"recipes">>>> \o reg[ri].file_path

\* run.py:55-58: the path of the config, given the index of the config found
config_path_of(reg, ri, ci, config_name) ==
    IF ci = 0 THEN config_name
    ELSE ROOT \o <<<<"recipes">>, <<"configs">>>> \o reg[ri].configs[ci].file_path

_run_recipe(reg, path, argv, recipe_name, config_name, distributed, num_processes, rdzv_endpoint, is_builtin, ext) ==
    LET ri == FirstNamed(reg, recipe_name)
        recipe_path == recipe_path_of(reg, ri, recipe_name)
        supports_distributed == IF ri = 0 THEN TRUE ELSE reg[ri].supports_distributed
        ci1 == IF ri # 0 THEN FirstNamed(reg[ri].configs, config_name) ELSE 0
    IN  IF SecondLookupFails(ri, ci1)
        THEN RunEffect(Exc("AttributeError", "'NoneType' object has no attribute 'configs'", NoStr),
                       path, argv, NoCall)
        ELSE LET ci == IF ci1 = 0 THEN FirstNamed(reg[ri].configs, config_name) ELSE ci1
                 config_path == config_path_of(reg, ri, ci, config_name)
                 path1 == Append(path, CWD)
             IN  IF distributed
                 THEN IF DistributedRefused(distributed, supports_distributed)
                      THEN RunEffect(Exc("ValueError", "Recipe {} does not support distributed training",
                                         recipe_name),
                                     path1, argv, NoCall)
                      ELSE _run_distributed(path1, argv, recipe_path, config_path,
                                            is_builtin, num_processes, rdzv_endpoint, ext)
                 ELSE _run_single_device(path1, recipe_path, config_path, is_builtin, ext)

(***************************************************************************)
(* The filesystem, pathlib and shutil                                      *)
(***************************************************************************)
DirNode == [type |-> "dir", content |-> <<>>]

FileNode(content) == [type |-> "file", content |-> content]

Exists(f, p) == p \in DOMAIN f

IsDir(f, p) == p \in DOMAIN f /\ f[p].type = "dir"

IsFile(f, p) == p \in DOMAIN f /\ f[p].type = "file"

Parent(p) == IF p = <<>> THEN p ELSE SubSeq(p, 1, Len(p) - 1)

Prefixes(p) == {SubSeq(p, 1, k) : k \in 0..(Len(p) - 1)}

\* Some component on the way to p is a regular file
UnderFile(f, p) == \E q \in Prefixes(p) : IsFile(f, q)

\* Path.name
PathName(p) == IF p = <<>> THEN NoStr ELSE p[Len(p)]

\* PurePath.suffix of a name: from the last "." on, unless the "." begins or
\* ends the name
NameSuffix(name) ==
    IF \E i \in DOMAIN name : name[i] = "."
    THEN LET i == CHOOSE k \in DOMAIN name :
                    name[k] = "." /\ \A j \in (k + 1)..Len(name) : name[j] # "."
         IN  IF 1 < i /\ i < Len(name) THEN SubSeq(name, i, Len(name)) ELSE NoStr
    ELSE NoStr

\* PurePath.with_suffix
with_suffix(p, suffix) ==
    LET name == PathName(p)
        old == NameSuffix(name)
    IN  [p EXCEPT ![Len(p)] = SubSeq(name, 1, Len(name) - Len(old)) \o suffix]

With(f, p, node) == [q \in DOMAIN f \cup {p} |-> IF q = p THEN node ELSE f[q]]

FsEffect(exc, f, value) == [exc |-> exc, fs |-> f, value |-> value]

\* Path.mkdir(exist_ok=True), without parents=True: only the last directory
\* is made
mkdir_last_only(f, p) ==
    IF IsDir(f, p) THEN FsEffect(NoExc, f, p)
    ELSE IF IsFile(f, p) THEN FsEffect(Exc("FileExistsError", "File exists: {}", p), f, p)
    ELSE IF UnderFile(f, p) THEN FsEffect(Exc("NotADirectoryError", "Not a directory: {}", p), f, p)
    ELSE IF ~IsDir(f, Parent(p))
    THEN FsEffect(Exc("FileNotFoundError", "No such file or directory: {}", p), f, p)
    ELSE FsEffect(NoExc, With(f, p, DirNode), p)

\* Path.mkdir(parents=True, exist_ok=True)
RECURSIVE mkdir_parents(_, _)
mkdir_parents(f, p) ==
    IF IsDir(f, p) THEN FsEffect(NoExc, f, p)
    ELSE IF IsFile(f, p) THEN FsEffect(Exc("FileExistsError", "File exists: {}", p), f, p)
    ELSE IF UnderFile(f, p) THEN FsEffect(Exc("NotADirectoryError", "Not a directory: {}", p), f, p)
    ELSE LET up == mkdir_parents(f, Parent(p))
         IN  IF Raised(up.exc) THEN up ELSE FsEffect(NoExc, With(up.fs, p, DirNode), p)

\* shutil.copy(src, dst): into dst when dst is a directory; returns the path
\* written.  The source is a file of the installed package and exists.
shutil_copy(f, src, dst) ==
    LET to == IF IsDir(f, dst) THEN Append(dst, PathName(src)) ELSE dst
    IN  IF IsDir(f, to) THEN FsEffect(Exc("IsADirectoryError", "Is a directory: {}", to), f, to)
        ELSE IF UnderFile(f, to)
        THEN FsEffect(Exc("NotADirectoryError", "Not a directory: {}", to), f, to)
        ELSE IF ~IsDir(f, Parent(to))
        THEN FsEffect(Exc("FileNotFoundError", "No such file or directory: {}", to), f, to)
        ELSE FsEffect(NoExc, With(f, to, FileNode(src)), to)

(***************************************************************************)
(* cp.py                                                                   *)
(***************************************************************************)
NoSource == [src |-> <<>>, proper_suffix |-> NoStr]

\* A scan that a config named file ends too: the first match of either kind
\* wins
RECURSIVE cp_scan_first_match(_, _, _, _)
cp_scan_first_match(reg, i, file, found) ==
    IF i > Len(reg) THEN found
    ELSE IF reg[i].name = file
    THEN [src |-> ROOT \o <<<<"recipes">>>> \o reg[i].file_path, proper_suffix |-> PY]
    ELSE LET ci == FirstNamed(reg[i].configs, file)
         IN  IF ci = 0 THEN cp_scan_first_match(reg, i + 1, file, found)
             ELSE [src |-> ROOT \o <<<<"recipes">>, <<"configs">>>>
                               \o reg[i].configs[ci].file_path,
                   proper_suffix |-> YAML]

\* cp.py:38-47, from recipe i on: a recipe named file ends the scan; a config
\* named file ends the scan of that recipe's configs only
RECURSIVE cp_scan(_, _, _, _)
cp_scan(reg, i, file, found) ==
    IF i > Len(reg) THEN found
    ELSE IF reg[i].name = file
    THEN [src |-> ROOT \o <<<<"recipes">>>> \o reg[i].file_path, proper_suffix |-> PY]
    ELSE LET ci == FirstNamed(reg[i].configs, file)
         IN  cp_scan(reg, i + 1, file,
                     IF ci = 0 THEN found
                     ELSE [src |-> ROOT \o <<<<"recipes">>, <<"configs">>>>
                                       \o reg[i].configs[ci].file_path,
                           proper_suffix |-> YAML])

\* cp.py:56-57
cp_destination(destination, proper_suffix) ==
    IF PathName(destination) # NoStr /\ NameSuffix(PathName(destination)) # proper_suffix
    THEN with_suffix(destination, proper_suffix)
    ELSE destination

\* A copier that reads no_clobber the wrong way round
cp_skips_clobbering(f, destination, no_clobber) == ~no_clobber /\ Exists(f, destination)

\* cp.py:61
cp_skips(f, destination, no_clobber) == no_clobber /\ Exists(f, destination)

None == [tag |-> "None", value |-> <<>>]

PathValue(p) == [tag |-> "Path", value |-> p]

\* A list of paths whose order the code does not fix (iterdir), as the set of
\* its items
PathsValue(items) == [tag |-> "Paths", value |-> items]

\* A list, and a dict: a record for a dict of fixed keys, a function for a
\* dict whose keys are data
ListValue(items) == [tag |-> "List", value |-> items]

DictValue(d) == [tag |-> "Dict", value |-> d]

_cp(reg, f, file, destination0, no_clobber, make_parents) ==
    LET found == cp_scan(reg, 1, file, NoSource)
    IN  IF found = NoSource
        THEN FsEffect(Exc("ValueError", "Invalid file name: {}", file), f, None)
        ELSE LET destination == cp_destination(destination0, found.proper_suffix)
             IN  IF cp_skips(f, destination, no_clobber)
                 THEN FsEffect(NoExc, f, None)
                 ELSE LET made == IF make_parents THEN mkdir_parents(f, Parent(destination))
                                  ELSE FsEffect(NoExc, f, None)
                          copied == shutil_copy(made.fs, found.src, destination)
                          raised == IF Raised(made.exc) THEN made.exc ELSE copied.exc
                      IN  IF raised.kind = "FileNotFoundError"
                          THEN FsEffect(Exc("FileNotFoundError",
                                            "Cannot create regular file: {}. Set make_parents=True",
                                            destination),
                                        IF Raised(made.exc) THEN made.fs ELSE copied.fs, None)
                          ELSE IF Raised(made.exc) THEN FsEffect(made.exc, made.fs, None)
                          ELSE IF Raised(copied.exc) THEN FsEffect(copied.exc, copied.fs, None)
                          ELSE FsEffect(NoExc, copied.fs, PathValue(copied.value))

(***************************************************************************)
(* download.py                                                             *)
(***************************************************************************)
REPO_ID_FNAME == <<"original_repo_id">>

\* A call into a hub library, with what it is given
HubCall(fn, arg) ==
    [fn |-> fn, target |-> arg, args |-> <<>>,
     nproc |-> 0, rdzv |-> NoStr, standalone |-> FALSE, module |-> FALSE]

DownloadEffect(exc, f, value, made) == [exc |-> exc, fs |-> f, value |-> value, calls |-> made]

\* list(Path(dir).iterdir())
iterdir(f, dir) == {p \in DOMAIN f : p # <<>> /\ Parent(p) = dir /\ p # dir}

\* How snapshot_download ends: with the directory filled, or raising
SnapshotOutcomes == {"ok", "GatedRepoError", "RepositoryNotFoundError", "fail"}

\* snapshot_download(repo_id, local_dir=output_dir, ...), when it succeeds:
\* the directory is made and holds the repository's files
snapshot_files(f, output_dir) ==
    LET made == mkdir_parents(f, output_dir)
    IN  IF Raised(made.exc) THEN made
        ELSE shutil_copy(made.fs, <<<<"hub">>, <<"weights">>>>, Append(output_dir, <<"weights">>))

_download_from_huggingface(f, repo_id, output_dir0, hf_token, ignore_patterns, snap) ==
    LET parts == Split(repo_id, "/")
        output_dir == IF output_dir0 = <<>>
                      THEN <<<<"/">>, <<"tmp">>, parts[Len(parts)]>>
                      ELSE output_dir0
        made == <<HubCall("snapshot_download", repo_id)>>
        got == snapshot_files(f, output_dir)
    IN  IF snap = "GatedRepoError"
        THEN DownloadEffect(IF hf_token # NoStr
                            THEN Exc("ValueError", "Access denied. Please ensure you have access to the repository.", NoStr)
                            ELSE Exc("ValueError", "Access denied. Please provide a Hugging Face token via hf_token", NoStr),
                            f, None, made)
        ELSE IF snap = "RepositoryNotFoundError"
        THEN DownloadEffect(Exc("ValueError", "Repository '{}' not found on the Hugging Face Hub.", repo_id),
                            f, None, made)
        ELSE IF snap = "fail" \/ Raised(got.exc)
        THEN DownloadEffect(Exc("RuntimeError", "Failed to download {}: ...", repo_id), f, None, made)
        ELSE LET sidecar == Append(output_dir, REPO_ID_FNAME \o <<".", "json">>)
                 g == With(got.fs, sidecar, FileNode(<<<<"repo_id">>, repo_id>>))
             IN  DownloadEffect(NoExc, g, PathsValue(iterdir(g, output_dir)), made)

\* kagglehub.handle.parse_model_handle: owner/model/framework/variation, with
\* an optional /version; anything else is a ValueError
handle_parses(parts) == Len(parts) \in {4, 5}

\* How set_kaggle_credentials ends
CredentialOutcomes == {"ok", "fail"}

\* How model_download ends: with the cache directory filled, with a
\* KaggleApiHTTPError of some status, or with another exception
ModelDownloadOutcomes == {"ok", "401", "403", "404", "500", "fail"}

UNAUTHORIZED == "401"

FORBIDDEN == "403"

NOT_FOUND == "404"

NoEnv == [KAGGLE_USERNAME |-> NoStr, KAGGLE_KEY |-> NoStr]

\* A backend that is taken to deny access only with 401
is_denied_401_only(md) == md = UNAUTHORIZED

\* e.response.status_code in {HTTPStatus.UNAUTHORIZED, HTTPStatus.FORBIDDEN}
is_denied(md) == md \in {UNAUTHORIZED, FORBIDDEN}

_download_from_kaggle(f, model_handle, kaggle_username, kaggle_api_key, environ, cred, md) ==
    LET parts == Split(model_handle, "/")
        parse == <<HubCall("parse_model_handle", model_handle)>>
    IN  IF ~handle_parses(parts)
        THEN DownloadEffect(Exc("ValueError", "Invalid model handle {}: ...", model_handle), f, None, parse)
        ELSE LET username == IF kaggle_username # NoStr THEN kaggle_username
                             ELSE environ.KAGGLE_USERNAME
                 api_key == IF kaggle_api_key # NoStr THEN kaggle_api_key ELSE environ.KAGGLE_KEY
                 creds == IF kaggle_username # NoStr \/ kaggle_api_key # NoStr
                          THEN <<HubCall("set_kaggle_credentials", <<username, api_key>>)>>
                          ELSE <<>>
                 made == parse \o creds \o <<HubCall("model_download", model_handle)>>
                 output_dir == <<<<"/">>, <<"kagglehub">>>> \o parts
                 got == snapshot_files(f, output_dir)
             IN  IF is_denied(md)
                 THEN DownloadEffect(Exc("ValueError", "Access denied. Please provide valid Kaggle credentials", NoStr),
                                     f, None, made)
                 ELSE IF md = NOT_FOUND
                 THEN DownloadEffect(Exc("ValueError", "Model '{}' not found on Kaggle Model Hub", model_handle),
                                     f, None, made)
                 ELSE IF md # "ok" \/ Raised(got.exc)
                 THEN DownloadEffect(Exc("RuntimeError", "Failed to download {}: ...", model_handle),
                                     f, None, made)
                 ELSE DownloadEffect(NoExc, got.fs, PathsValue(iterdir(got.fs, output_dir)), made)

\* A downloader that takes every source but "kaggle" for Hugging Face
is_any_but_kaggle(source) == source # "kaggle"

\* The sources _download knows
is_huggingface(source) == source = "huggingface"

is_kaggle(source) == source = "kaggle"

\* download.py:49-63; env holds the environment variables and how the hub
\* calls end
_download(f, repo_id, output_dir, hf_token, ignore_patterns, source, kaggle_username, kaggle_api_key, env) ==
    IF is_huggingface(source)
    THEN _download_from_huggingface(f, repo_id, output_dir, hf_token, ignore_patterns, env.snap)
    ELSE IF is_kaggle(source)
    THEN _download_from_kaggle(f, repo_id, kaggle_username, kaggle_api_key,
                               env.environ, env.cred, env.md)
    ELSE DownloadEffect(Exc("ValueError", "Invalid source: {}. Must be 'huggingface' or 'kaggle'",
                            <<source>>),
                        f, None, NoCall)

(***************************************************************************)
(* ls.py                                                                   *)
(***************************************************************************)
Effect(exc, value) == [exc |-> exc, value |-> value]

\* The order of Python's str comparison on the tokens that names are made of
TokenOrder == <<".", "/", "a", "b", "m", "n", "u", "v", "x", "y">>

TokenRank(t) == CHOOSE i \in DOMAIN TokenOrder : TokenOrder[i] = t

\* a < b for two str
StrLess(a, b) ==
    \E k \in 1..(Len(b)) :
        /\ k <= Len(a) + 1
        /\ \A j \in 1..(k - 1) : a[j] = b[j]
        /\ (k = Len(a) + 1 \/ TokenRank(a[k]) < TokenRank(b[k]))

\* sorted(list(set(items)))
sorted_set(items) ==
    LET S == {items[i] : i \in DOMAIN items}
    IN  CHOOSE s \in [1..Cardinality(S) -> S] :
            \A i, j \in DOMAIN s : i < j => StrLess(s[i], s[j])

Names(items) == [i \in DOMAIN items |-> items[i].name]

\* A not-found error that does not say which recipe
RecipeNotFoundUnnamed(recipe_name) == Exc("ValueError", "Recipe not found: {}", NoStr)

RecipeNotFound(recipe_name) == Exc("ValueError", "Recipe not found: {}", recipe_name)

\* ext is how _recipe_registry.get_all_recipes() ends
_list_recipes(reg, ext) ==
    IF ext # "ok" THEN Effect(ExtFailure, None)
    ELSE Effect(NoExc, ListValue(Names(reg)))

_list_recipe_configs(reg, recipe_name, ext) ==
    LET ri == FirstNamed(reg, recipe_name)
    IN  IF ext # "ok" THEN Effect(ExtFailure, None)
        ELSE IF ri = 0 THEN Effect(RecipeNotFound(recipe_name), None)
        ELSE Effect(NoExc, DictValue([configs |-> ListValue(Names(reg[ri].configs))]))

_list_recipe_config_paths(reg, recipe_name, ext) ==
    LET ri == FirstNamed(reg, recipe_name)
    IN  IF ext # "ok" THEN Effect(ExtFailure, None)
        ELSE IF ri = 0 THEN Effect(RecipeNotFound(recipe_name), None)
        ELSE LET cs == reg[ri].configs
                 last_named(n) == CHOOSE i \in DOMAIN cs :
                                    cs[i].name = n /\ \A j \in (i + 1)..Len(cs) : cs[j].name # n
             IN  Effect(NoExc, DictValue([n \in {cs[i].name : i \in DOMAIN cs} |->
                                            cs[last_named(n)].file_path]))

_list_recipe_models(reg, recipe_name, ext) ==
    LET ri == FirstNamed(reg, recipe_name)
    IN  IF ext # "ok" THEN Effect(ExtFailure, None)
        ELSE IF ri = 0 THEN Effect(RecipeNotFound(recipe_name), None)
        ELSE LET cs == reg[ri].configs
             IN  Effect(NoExc, DictValue([models |->
                    ListValue(sorted_set([i \in DOMAIN cs |-> Split(cs[i].name, "/")[1]]))]))

(***************************************************************************)
(* configs.py and validate.py                                              *)
(***************************************************************************)
\* What a configuration file is when it is read: missing, empty, not YAML, a
\* mapping, a list, or a mapping with a reference that does not resolve
ConfigFileStates == {"missing", "empty", "invalid", "mapping", "list", "unresolved"}

\* The top-level keys of the mapping in a file that holds one
SettingKeys == <<<<"batch_size">>, <<"model">>>>

\* OmegaConf.load: the configuration object, or the exception
ConfigObject(kind) == [tag |-> "Config", value |-> kind]

OmegaConf_load(state) ==
    IF state = "missing" THEN Effect(Exc("FileNotFoundError", "No such file or directory", NoStr), None)
    ELSE IF state = "invalid" THEN Effect(Exc("YAMLError", "while scanning", NoStr), None)
    ELSE Effect(NoExc, ConfigObject(IF state = "empty" THEN "empty_mapping" ELSE state))

\* OmegaConf.to_container(config, resolve=True)
to_container(config) ==
    IF config.value = "unresolved"
    THEN Effect(Exc("InterpolationKeyError", "Interpolation key not found", NoStr), None)
    ELSE IF config.value = "list" THEN Effect(NoExc, ListValue(<<>>))
    ELSE IF config.value = "empty_mapping" THEN Effect(NoExc, DictValue(<<>>))
    ELSE Effect(NoExc, DictValue(SettingKeys))

\* configs.py:25-43; config_name is None for a config the recipe does not
\* have, and state is what the file is
_get_config_settings(config_name, state) ==
    IF config_name.tag = "None"
    THEN Effect(Exc("Exception", "Error parsing configuration file: unsupported operand type(s) for /", NoStr),
                None)
    ELSE IF state = "missing"
    THEN Effect(Exc("Exception", "Error parsing configuration file: Configuration file not found: {}",
                    config_name.value),
                None)
    ELSE LET config == OmegaConf_load(state)
         IN  IF Raised(config.exc)
             THEN Effect(Exc("Exception", "Error parsing configuration file: ...", NoStr), None)
             ELSE IF config.value.tag = "None"
             THEN Effect(Exc("Exception", "Error parsing configuration file: Configuration file is empty", NoStr),
                         None)
             ELSE LET settings == to_container(config.value)
                  IN  IF Raised(settings.exc)
                      THEN Effect(Exc("ValueError", "Error parsing configuration file: ...", NoStr), None)
                      ELSE Effect(NoExc, DictValue([settings |-> settings.value]))

\* How config.validate ends
ValidateOutcomes == {"ok", "ConfigError"}

\* validate.py:10-41; config_path is what the caller passes: a path, or
\* something Path() does not take
_validate_config(config_path, state, check) ==
    IF config_path.tag # "Path"
    THEN Effect(Exc("TypeError", "expected str, bytes or os.PathLike object", NoStr), None)
    ELSE LET cfg == OmegaConf_load(state)
         IN  IF cfg.exc.kind = "FileNotFoundError" THEN Effect(cfg.exc, None)
             ELSE IF Raised(cfg.exc)
             THEN Effect(Exc("ValueError", "Could not load config file: ...", NoStr), None)
             ELSE IF check = "ConfigError"
             THEN Effect(Exc("ValueError", "Invalid config: ...", NoStr), None)
             ELSE Effect(NoExc, [tag |-> "Bool", value |-> TRUE])

(***************************************************************************)
(* Calls by keyword and HTTP responses (app.py)                            *)
(***************************************************************************)
\* str(e)
StrOf(e) == [fmt |-> e.fmt, arg |-> e.arg]

NoDetail == [fmt |-> "", arg |-> NoStr]

NoValue == <<>>

NoResponse == [status |-> 0, tag |-> "none", detail |-> NoDetail, value |-> NoValue]

\* raise HTTPException(status_code=status, detail=str(e))
HTTPException(status, e) ==
    [status |-> status, tag |-> "detail", detail |-> StrOf(e), value |-> NoValue]

\* A handler that returns None
EmptyOK == [status |-> 200, tag |-> "empty", detail |-> NoDetail, value |-> NoValue]

\* f(**kwargs): a keyword no parameter is named after, or a parameter without
\* a default that no keyword names, is a TypeError raised before f's body runs
BindKwargs(keys, params, required) ==
    IF \E k \in keys : k \notin params
    THEN Exc("TypeError", "got an unexpected keyword argument", NoStr)
    ELSE IF \E p \in required : p \notin keys
    THEN Exc("TypeError", "missing required positional argument", NoStr)
    ELSE NoExc

Arg(kwargs, p, default) == IF p \in DOMAIN kwargs THEN kwargs[p] ELSE default

(***************************************************************************)
(* models.py: RunRequest                                                   *)
(***************************************************************************)
Overrides == {<<>>, <<<<"b=2">>, <<"a=1">>>>}

\* The names a run request can carry: x is a recipe of some snapshots, u/v of
\* none; m/a is a config of some recipes, u/v of none
RunRecipeNames == {<<"x">>, <<"u", "/", "v">>}

RunConfigNames == {<<"m", "/", "a">>, <<"u", "/", "v">>}

\* ensure_list has turned a missing distributed_args or config_overrides
\* into []
RunRequests ==
    [recipe : RunRecipeNames, config : RunConfigNames,
     distributed_args : {<<>>}, config_overrides : Overrides]

\* request.model_dump()
model_dump(request) == request

RunRecipeParams ==
    {"recipe_name", "config_name", "distributed", "num_processes", "rdzv_endpoint", "is_builtin"}

RunRecipeRequired == {"recipe_name", "config_name"}

\* _run_recipe(**kwargs)
call_run_recipe(reg, path, argv, kwargs, ext) ==
    LET bind == BindKwargs(DOMAIN kwargs, RunRecipeParams, RunRecipeRequired)
    IN  IF Raised(bind)
        THEN RunEffect(bind, path, argv, NoCall)
        ELSE _run_recipe(reg, path, argv, kwargs.recipe_name, kwargs.config_name,
                         Arg(kwargs, "distributed", FALSE), Arg(kwargs, "num_processes", 1),
                         Arg(kwargs, "rdzv_endpoint", NoStr), Arg(kwargs, "is_builtin", TRUE), ext)

(***************************************************************************)
(* The state after start-up                                                *)
(***************************************************************************)
NoLast == [op |-> "none", args |-> <<>>, exc |-> NoExc, result |-> NoValue]

\* The working directory, and the root of the absolute paths with /tmp
FsInit == [p \in {<<>>, <<<<"/">>>>, <<<<"/">>, <<"tmp">>>>} |-> DirNode]

Start(reg) ==
    /\ registry = reg
    /\ fs = FsInit
    /\ sys_path = <<<<"site-packages">>>>
    /\ sys_argv = <<<<"tuneapi">>>>
    /\ calls = NoCall
    /\ last = NoLast
    /\ response = NoResponse
    /\ nops = 0

(***************************************************************************)
(* The runner's operations                                                 *)
(***************************************************************************)
\* How a caller asks for distributed mode: the defaults of the signature, or
\* distributed=True with a process count and an optional endpoint
RunModes ==
    {[distributed |-> FALSE, num_processes |-> 1, rdzv_endpoint |-> NoStr]} \cup
    {[distributed |-> TRUE, num_processes |-> 1, rdzv_endpoint |-> NoStr],
     [distributed |-> TRUE, num_processes |-> 2, rdzv_endpoint |-> <<"host:1">>]}

\* _run_recipe serving a run request: the request's recipe and config go in
\* under the parameter names of the signature, which has no parameter for
\* distributed_args or config_overrides.
RunRecipeCall ==
    /\ nops < MaxOps
    /\ \E req \in RunRequests, mode \in RunModes, is_builtin \in BOOLEAN, ext \in ExtOutcomes :
        LET kwargs == [recipe_name |-> req.recipe, config_name |-> req.config,
                       distributed |-> mode.distributed, num_processes |-> mode.num_processes,
                       rdzv_endpoint |-> mode.rdzv_endpoint, is_builtin |-> is_builtin]
            eff == call_run_recipe(registry, sys_path, sys_argv, kwargs, ext)
        IN  /\ sys_path' = eff.sys_path
            /\ sys_argv' = eff.sys_argv
            /\ calls' = eff.calls
            /\ last' = [op |-> "_run_recipe",
                        args |-> [request |-> req, kwargs |-> kwargs, ext |-> ext],
                        exc |-> eff.exc, result |-> NoValue]
            /\ response' = NoResponse
    /\ nops' = nops + 1
    /\ UNCHANGED <<registry, fs>>


(***************************************************************************)
(* The copier's operations                                                 *)
(***************************************************************************)
\* x is a recipe, a config or both in some snapshots, y a recipe in some
CpFiles == {<<"x">>, <<"y">>}

\* Destinations: the working directory, a name without and with a suffix, a
\* name in a directory, a name two levels below a name that a copy may have
\* written as a file
CpDestinations ==
    {<<>>,
     <<<<"f">>>>,
     <<<<"f", ".", "py">>>>,
     <<<<"d">>, <<"f">>>>,
     <<<<"f", ".", "py">>, <<"d">>, <<"f">>>>}

CpCall ==
    /\ nops < MaxOps
    /\ \E file \in CpFiles, destination \in CpDestinations,
          no_clobber \in BOOLEAN, make_parents \in BOOLEAN :
        LET eff == _cp(registry, fs, file, destination, no_clobber, make_parents)
        IN  /\ fs' = eff.fs
            /\ last' = [op |-> "_cp",
                        args |-> [file |-> file, destination |-> destination,
                                  no_clobber |-> no_clobber, make_parents |-> make_parents],
                        exc |-> eff.exc, result |-> eff.value]
            /\ response' = NoResponse
            /\ calls' = NoCall
    /\ nops' = nops + 1
    /\ UNCHANGED <<registry, sys_path, sys_argv>>

CpRegistries == RegistriesOver({<<"x">>, <<"y">>}, {<<"x">>}, {TRUE})

InitCp == \E reg \in CpRegistries : Start(reg)

NextCp == CpCall

SpecCp == InitCp /\ [][NextCp]_vars

(***************************************************************************)
(* The downloader's operations                                             *)
(***************************************************************************)
DownloadRequest(repo_id, output_dir, hf_token, source, kaggle_username, kaggle_api_key) ==
    [repo_id |-> repo_id, output_dir |-> output_dir, hf_token |-> hf_token,
     ignore_patterns |-> NoStr, source |-> source,
     kaggle_username |-> kaggle_username, kaggle_api_key |-> kaggle_api_key]

\* A repository, a bare model name, two Kaggle handles: one of Meta's PyTorch
\* models and one of another owner and framework
RepoIds == {<<"org", "/", "m">>, <<"m">>}

Handles ==
    {<<"metaresearch", "/", "llama", "/", "pytorch", "/", "7b">>,
     <<"u", "/", "m", "/", "jax", "/", "v">>}

Sources == {"huggingface", "kaggle", "hf"}

SetEnviron == [KAGGLE_USERNAME |-> <<"envuser">>, KAGGLE_KEY |-> <<"envkey">>]

Env(snap, environ, cred, md) == [snap |-> snap, environ |-> environ, cred |-> cred, md |-> md]

\* The environments that differ for a request: those of the calls its source
\* leads to
EnvsOf(request) ==
    IF request.source = "huggingface"
    THEN {Env(snap, NoEnv, "ok", "ok") : snap \in SnapshotOutcomes}
    ELSE IF request.source = "kaggle"
    THEN IF ~handle_parses(Split(request.repo_id, "/"))
         THEN {Env("ok", NoEnv, "ok", "ok")}
         ELSE IF request.kaggle_username = NoStr /\ request.kaggle_api_key = NoStr
         THEN {Env("ok", environ, "ok", md) :
                    environ \in {NoEnv, SetEnviron}, md \in ModelDownloadOutcomes}
         ELSE {Env("ok", environ, cred, md) :
                    environ \in {NoEnv, SetEnviron}, cred \in CredentialOutcomes,
                    md \in ModelDownloadOutcomes}
    ELSE {Env(snap, SetEnviron, "ok", md) : snap \in {"ok", "fail"}, md \in {"ok", "fail"}}

DownloadArgs ==
    {DownloadRequest(r, o, t, "huggingface", NoStr, NoStr) :
        r \in RepoIds, o \in {<<>>, <<<<"out">>>>}, t \in {NoStr, <<"tok">>}}
    \cup {DownloadRequest(h, <<>>, NoStr, "kaggle", u, k) :
        h \in Handles \cup RepoIds, u \in {NoStr, <<"user">>}, k \in {NoStr, <<"key">>}}
    \cup {DownloadRequest(r, o, t, "hf", u, u) :
        r \in RepoIds \cup Handles, o \in {<<>>, <<<<"out">>>>}, t \in {NoStr, <<"tok">>},
        u \in {NoStr, <<"user">>}}

\* _download(**kwargs)
call_download(f, kwargs, env) ==
    _download(f, kwargs.repo_id, kwargs.output_dir, kwargs.hf_token, kwargs.ignore_patterns,
              kwargs.source, kwargs.kaggle_username, kwargs.kaggle_api_key, env)

DownloadCall ==
    /\ nops < MaxOps
    /\ \E args \in DownloadArgs : \E env \in EnvsOf(args) :
        LET eff == call_download(fs, args, env)
        IN  /\ fs' = eff.fs
            /\ calls' = eff.calls
            /\ last' = [op |-> "_download", args |-> [request |-> args, env |-> env],
                        exc |-> eff.exc, result |-> eff.value]
            /\ response' = NoResponse
    /\ nops' = nops + 1
    /\ UNCHANGED <<registry, sys_path, sys_argv>>

InitDownload == Start(<<>>)

NextDownload == DownloadCall

SpecDownload == InitDownload /\ [][NextDownload]_vars

(***************************************************************************)
(* The listing operations                                                  *)
(***************************************************************************)
ListFunctions ==
    {"_list_recipes", "_list_recipe_configs", "_list_recipe_config_paths", "_list_recipe_models"}

ListedNames == {<<"x">>, <<"y">>, <<"u", "/", "v">>}

list_call(reg, fn, recipe_name, ext) ==
    CASE fn = "_list_recipes" -> _list_recipes(reg, ext)
      [] fn = "_list_recipe_configs" -> _list_recipe_configs(reg, recipe_name, ext)
      [] fn = "_list_recipe_config_paths" -> _list_recipe_config_paths(reg, recipe_name, ext)
      [] OTHER -> _list_recipe_models(reg, recipe_name, ext)

ListCall ==
    /\ nops < MaxOps
    /\ \E fn \in ListFunctions, recipe_name \in ListedNames, ext \in ExtOutcomes :
        LET eff == list_call(registry, fn, recipe_name, ext)
        IN  last' = [op |-> fn, args |-> [recipe_name |-> recipe_name, ext |-> ext],
                     exc |-> eff.exc, result |-> eff.value]
    /\ response' = NoResponse
    /\ nops' = nops + 1
    /\ UNCHANGED <<registry, fs, sys_path, sys_argv, calls>>

LsRegistries == RegistriesOver({<<"x">>, <<"y">>}, {<<"m", "/", "a">>, <<"n", "/", "b">>}, {TRUE})

InitLs == \E reg \in LsRegistries : Start(reg)

NextLs == ListCall

SpecLs == InitLs /\ [][NextLs]_vars

(***************************************************************************)
(* The configuration operations                                            *)
(***************************************************************************)
\* What _get_config_settings is called with: the file path of a config, or
\* None for a config the recipe does not have (app.py:149-150)
ConfigNames ==
    {None, PathValue(<<<<"x">>, <<"m">>, <<"a", ".", "yaml">>>>),
     PathValue(<<<<"c", ".", "yaml">>>>)}

GetConfigSettingsCall ==
    /\ nops < MaxOps
    /\ \E config_name \in ConfigNames, state \in ConfigFileStates :
        LET eff == _get_config_settings(config_name, state)
        IN  last' = [op |-> "_get_config_settings",
                     args |-> [config_name |-> config_name, state |-> state],
                     exc |-> eff.exc, result |-> eff.value]
    /\ response' = NoResponse
    /\ nops' = nops + 1
    /\ UNCHANGED <<registry, fs, sys_path, sys_argv, calls>>

\* What _validate_config is called with: a path, or the loaded configuration
\* (app.py:109-110)
ConfigPath(is_path) ==
    IF is_path THEN PathValue(<<<<"c", ".", "yaml">>>>) ELSE ConfigObject("mapping")

ValidateConfigCall ==
    /\ nops < MaxOps
    /\ \E is_path \in BOOLEAN, state \in ConfigFileStates, check \in ValidateOutcomes :
        LET config_path == ConfigPath(is_path)
            eff == _validate_config(config_path, state, check)
        IN  last' = [op |-> "_validate_config",
                     args |-> [config_path |-> config_path, state |-> state, check |-> check],
                     exc |-> eff.exc, result |-> eff.value]
    /\ response' = NoResponse
    /\ nops' = nops + 1
    /\ UNCHANGED <<registry, fs, sys_path, sys_argv, calls>>

InitConfigs == \E reg \in RegistriesOver({<<"x">>}, {<<"m", "/", "a">>}, {TRUE}) : Start(reg)

NextConfigs == GetConfigSettingsCall \/ ValidateConfigCall

SpecConfigs == InitConfigs /\ [][NextConfigs]_vars

(***************************************************************************)
(* app.py: the handlers                                                    *)
(***************************************************************************)
Endpoints ==
    {"POST /download", "GET /recipes", "POST /copy", "POST /run", "POST /validate",
     "GET /configs", "GET /models", "GET /settings"}

\* Handlers that all give 400
error_status_400(endpoint) == 400

\* The status each handler's except clause gives its HTTPException
error_status(endpoint) == IF endpoint = "GET /recipes" THEN 500 ELSE 400

\* What FastAPI answers when the value a handler returns does not validate
\* against the handler's response model
InternalServerError == [status |-> 500, tag |-> "error", detail |-> NoDetail, value |-> NoValue]

OK(value) == [status |-> 200, tag |-> "json", detail |-> NoDetail, value |-> value]

\* The response models: List[Path], Path, ListResponse, and the three of
\* models.py:55-68
validates(endpoint, v) ==
    CASE endpoint = "POST /download" -> v.tag = "Paths"
      [] endpoint = "GET /recipes" -> v.tag = "List"
      [] endpoint = "POST /copy" -> v.tag = "Path"
      [] endpoint = "GET /configs" -> v.tag = "Dict" /\ v.value.configs.tag = "Dict"
      [] endpoint = "GET /models" -> v.tag = "Dict" /\ v.value.models.tag = "Dict"
      [] endpoint = "GET /settings" -> v.tag = "Dict" /\ v.value.settings.tag = "List"
      [] OTHER -> v.tag = "None"

\* try: return <value> / except Exception as e: raise HTTPException(...)
respond(endpoint, exc, value) ==
    IF Raised(exc) THEN HTTPException(error_status(endpoint), exc)
    ELSE IF ~validates(endpoint, value) THEN InternalServerError
    ELSE IF value.tag = "None" THEN EmptyOK
    ELSE OK(value)

Served(endpoint, args, exc, value) ==
    /\ last' = [op |-> endpoint, args |-> args, exc |-> exc, result |-> value]
    /\ response' = respond(endpoint, exc, value)
    /\ nops' = nops + 1

\* The requests of the facade
DownloadRequests ==
    {DownloadRequest(<<"org", "/", "m">>, <<>>, NoStr, "huggingface", NoStr, NoStr),
     DownloadRequest(<<"metaresearch", "/", "llama", "/", "pytorch", "/", "7b">>, <<>>, NoStr,
                     "kaggle", NoStr, NoStr),
     DownloadRequest(<<"org", "/", "m">>, <<>>, NoStr, "hf", NoStr, NoStr)}

DownloadParams ==
    {"repo_id", "output_dir", "hf_token", "ignore_patterns", "source", "kaggle_username",
     "kaggle_api_key"}

\* POST /download
download ==
    /\ nops < MaxOps
    /\ \E request \in DownloadRequests : \E env \in EnvsOf(request) :
        LET bind == BindKwargs(DOMAIN model_dump(request), DownloadParams, {"repo_id"})
            eff == IF Raised(bind) THEN DownloadEffect(bind, fs, None, NoCall)
                   ELSE call_download(fs, model_dump(request), env)
        IN  /\ fs' = eff.fs
            /\ calls' = eff.calls
            /\ Served("POST /download", [request |-> request, env |-> env], eff.exc, eff.value)
    /\ UNCHANGED <<registry, sys_path, sys_argv>>

\* GET /recipes
recipes ==
    /\ nops < MaxOps
    /\ \E ext \in ExtOutcomes :
        LET eff == _list_recipes(registry, ext)
        IN  Served("GET /recipes", [ext |-> ext], eff.exc, eff.value)
    /\ UNCHANGED <<registry, fs, sys_path, sys_argv, calls>>

CopyRequests ==
    [file : {<<"x">>}, destination : {<<<<"f">>>>, <<<<"d">>, <<"f">>>>},
     no_clobber : BOOLEAN, make_parents : BOOLEAN]

CpParams == {"file", "destination", "no_clobber", "make_parents"}

\* _cp(**kwargs)
call_cp(reg, f, kwargs) ==
    LET bind == BindKwargs(DOMAIN kwargs, CpParams, {"file", "destination"})
    IN  IF Raised(bind) THEN FsEffect(bind, f, None)
        ELSE _cp(reg, f, kwargs.file, kwargs.destination,
                 Arg(kwargs, "no_clobber", FALSE), Arg(kwargs, "make_parents", FALSE))

\* POST /copy
copy ==
    /\ nops < MaxOps
    /\ \E request \in CopyRequests :
        LET eff == call_cp(registry, fs, model_dump(request))
        IN  /\ fs' = eff.fs
            /\ Served("POST /copy", [request |-> request], eff.exc, eff.value)
    /\ UNCHANGED <<registry, sys_path, sys_argv, calls>>

\* POST /run
run ==
    /\ nops < MaxOps
    /\ \E request \in RunRequests, ext \in ExtOutcomes :
        LET eff == call_run_recipe(registry, sys_path, sys_argv, model_dump(request), ext)
        IN  /\ sys_path' = eff.sys_path
            /\ sys_argv' = eff.sys_argv
            /\ calls' = eff.calls
            /\ Served("POST /run", [request |-> request, ext |-> ext], eff.exc, None)
    /\ UNCHANGED <<registry, fs>>

ValidateRequests == [config : {<<<<"c", ".", "yaml">>>>}]

\* POST /validate: the handler loads the file and passes the configuration
\* object on
validate ==
    /\ nops < MaxOps
    /\ \E request \in ValidateRequests, state \in ConfigFileStates, check \in ValidateOutcomes :
        LET cfg == OmegaConf_load(state)
            eff == IF Raised(cfg.exc) THEN cfg ELSE _validate_config(cfg.value, state, check)
        IN  Served("POST /validate", [request |-> request, state |-> state, check |-> check],
                   eff.exc, None)
    /\ UNCHANGED <<registry, fs, sys_path, sys_argv, calls>>

RecipeConfigRequests == [recipe : {<<"x">>, <<"u", "/", "v">>}]

\* GET /configs
get_configs ==
    /\ nops < MaxOps
    /\ \E request \in RecipeConfigRequests, ext \in ExtOutcomes :
        LET eff == _list_recipe_configs(registry, request.recipe, ext)
        IN  Served("GET /configs", [request |-> request, ext |-> ext], eff.exc, eff.value)
    /\ UNCHANGED <<registry, fs, sys_path, sys_argv, calls>>

\* GET /models
get_models ==
    /\ nops < MaxOps
    /\ \E request \in RecipeConfigRequests, ext \in ExtOutcomes :
        LET eff == _list_recipe_models(registry, request.recipe, ext)
        IN  Served("GET /models", [request |-> request, ext |-> ext], eff.exc, eff.value)
    /\ UNCHANGED <<registry, fs, sys_path, sys_argv, calls>>

ConfigSettingsRequests ==
    [recipe : {<<"x">>, <<"u", "/", "v">>}, config : {<<"m", "/", "a">>, <<"u", "/", "v">>}]

\* app.py:147-152
settings_of(reg, request, state, ext) ==
    LET all_configs == _list_recipe_config_paths(reg, request.recipe, ext)
    IN  IF Raised(all_configs.exc) THEN all_configs
        ELSE LET requested_config ==
                    IF request.config \in DOMAIN all_configs.value.value
                    THEN PathValue(all_configs.value.value[request.config])
                    ELSE None
                 settings == _get_config_settings(requested_config, state)
             IN  IF Raised(settings.exc) THEN settings
                 ELSE IF settings.value.value.settings.tag # "Dict"
                 THEN Effect(Exc("AttributeError", "'list' object has no attribute 'keys'", NoStr), None)
                 ELSE Effect(NoExc, DictValue([settings |->
                                                ListValue(settings.value.value.settings.value)]))

\* GET /settings
get_settings ==
    /\ nops < MaxOps
    /\ \E request \in ConfigSettingsRequests, state \in ConfigFileStates, ext \in ExtOutcomes :
        LET eff == settings_of(registry, request, state, ext)
        IN  Served("GET /settings", [request |-> request, state |-> state, ext |-> ext],
                   eff.exc, eff.value)
    /\ UNCHANGED <<registry, fs, sys_path, sys_argv, calls>>

RunRegistries == RegistriesOver({<<"x">>, <<"y">>}, {<<"m", "/", "a">>}, BOOLEAN)

InitRun == \E reg \in RunRegistries : Start(reg)

NextRun == RunRecipeCall \/ run

SpecRun == InitRun /\ [][NextRun]_vars
ApiRegistries == RegistriesOver({<<"x">>}, {<<"m", "/", "a">>, <<"n", "/", "b">>}, {TRUE})

Init == \E reg \in ApiRegistries : Start(reg)

Next ==
    \/ download
    \/ recipes
    \/ copy
    \/ run
    \/ validate
    \/ get_configs
    \/ get_models
    \/ get_settings

Spec == Init /\ [][Next]_vars

(***************************************************************************)
(* Properties of the runner                                                *)
(***************************************************************************)
Launchers == {"torch.distributed.run.run", "runpy.run_path", "runpy.run_module"}

Launched == \E i \in DOMAIN calls : calls[i].fn \in Launchers

\* The recipe and the config the runner resolves a request to
ResolvedRecipe(recipe_name) ==
    recipe_path_of(registry, FirstNamed(registry, recipe_name), recipe_name)

ResolvedConfig(recipe_name, config_name) ==
    LET ri == FirstNamed(registry, recipe_name)
    IN  config_path_of(registry, ri,
                       IF ri = 0 THEN 0 ELSE FirstNamed(registry[ri].configs, config_name),
                       config_name)

\* The runner, given the request's recipe and config and the defaults of its
\* other parameters, resolves and executes them without error
RunnerSucceeds(request, ext) ==
    ~Raised(_run_recipe(registry, sys_path, sys_argv, request.recipe, request.config,
                        FALSE, 1, NoStr, TRUE, ext).exc)

\* C1: a POST /run request whose recipe and config the runner resolves and
\* executes without error has the runner invoked with them and is answered
\* 200 with an empty body; 400 is answered only when the runner itself fails.
C1_RunAnswers200 ==
    (last.op = "POST /run" /\ RunnerSucceeds(last.args.request, last.args.ext))
        => /\ response = EmptyOK
           /\ Launched
           /\ calls[1].target = ResolvedRecipe(last.args.request.recipe)

\* C3: for a recipe_name that matches no recipe of the registry, _run_recipe
\* raises nothing while resolving: the recipe path is recipe_name with "/"
\* replaced by ".", the config path is config_name unchanged, and the
\* execution step is reached.
C3_UnmatchedRecipeIsUserModule ==
    (last.op = "_run_recipe" /\ FirstNamed(registry, last.args.kwargs.recipe_name) = 0)
        => /\ Launched
           /\ calls[1].target = Replace(last.args.kwargs.recipe_name, "/", ".")
           /\ calls[1].args[Len(calls[1].args)] = last.args.kwargs.config_name
           /\ last.exc \in {NoExc, ExtFailure}

\* The request of the last _run_recipe call asks for distributed mode on a
\* registered recipe that does not support it
UnsupportedDistributed ==
    /\ last.op = "_run_recipe"
    /\ last.args.kwargs.distributed
    /\ LET ri == FirstNamed(registry, last.args.kwargs.recipe_name)
       IN  ri # 0 /\ ~registry[ri].supports_distributed

\* C4: a distributed run of a registered recipe with
\* supports_distributed=false ends with the invalid-argument error, and no
\* launcher call and no in-process execution is made by it.
C4_UnsupportedDistributedLaunchesNothing ==
    UnsupportedDistributed
        => /\ last.exc = Exc("ValueError", "Recipe {} does not support distributed training",
                             last.args.kwargs.recipe_name)
           /\ ~Launched
           /\ calls = NoCall

C4_Witness ==
    /\ UnsupportedDistributed
    /\ last.exc.kind = "ValueError"
    /\ calls = NoCall

\* C5: in single-device mode the argument vector at the moment the recipe
\* is executed is [recipe_path, "--config", config_path] followed by the
\* request's config overrides, in request order.
C5_ArgvCarriesOverrides ==
    (last.op = "_run_recipe" /\ ~last.args.kwargs.distributed /\ Launched)
        => calls[1].args =
             <<ResolvedRecipe(last.args.kwargs.recipe_name), Flag("--config"),
               ResolvedConfig(last.args.kwargs.recipe_name, last.args.kwargs.config_name)>>
             \o last.args.request.config_overrides

\* C15: no operation writes state of the process that another request can
\* observe: the module search path and the argument vector are after every
\* operation, failed ones included, what they were before it.
C15_RequestsLeaveProcessStateAlone ==
    [][sys_path' = sys_path /\ sys_argv' = sys_argv]_vars

(***************************************************************************)
(* Properties of the copier                                                *)
(***************************************************************************)
HasRecipe(file) == \E i \in DOMAIN registry : registry[i].name = file

HasConfig(file) ==
    \E i \in DOMAIN registry : \E j \in DOMAIN registry[i].configs :
        registry[i].configs[j].name = file

Resolvable(file) == HasRecipe(file) \/ HasConfig(file)

RecipeSources(file) ==
    {ROOT \o <<<<"recipes">>>> \o registry[i].file_path :
        i \in {k \in DOMAIN registry : registry[k].name = file}}

ConfigSources(file) ==
    UNION {{ROOT \o <<<<"recipes">>, <<"configs">>>> \o registry[i].configs[j].file_path :
                j \in {k \in DOMAIN registry[i].configs : registry[i].configs[k].name = file}} :
           i \in DOMAIN registry}

\* The destination of a call once the suffix of what the name resolves to is
\* enforced on it
Adjusted(args) == cp_destination(args.destination, IF HasRecipe(args.file) THEN PY ELSE YAML)

\* Every path that was there is there unchanged
Kept(f, g) == \A q \in DOMAIN f : q \in DOMAIN g /\ g[q] = f[q]

CpInvalidName(e) == e.kind = "ValueError" /\ e.fmt = "Invalid file name: {}"

\* C6: a _cp call with no_clobber=true, a name that resolves and a
\* (suffix-adjusted) destination that exists leaves the filesystem as it was
\* (the destination's content, and no directory made), raises nothing and
\* returns None.
C6_NoClobberSkips ==
    [][(/\ last'.op = "_cp"
        /\ last'.args.no_clobber
        /\ Resolvable(last'.args.file)
        /\ Exists(fs, Adjusted(last'.args)))
            => (fs' = fs /\ last'.exc = NoExc /\ last'.result = None)]_vars

C6_Witness ==
    /\ last.op = "_cp"
    /\ last.args.no_clobber
    /\ last.args.make_parents
    /\ Resolvable(last.args.file)
    /\ IsFile(fs, Adjusted(last.args))
    /\ fs[Adjusted(last.args)].content \notin
            RecipeSources(last.args.file) \cup ConfigSources(last.args.file)
    /\ last.result = None
    /\ last.exc = NoExc

\* What C7 says of a call whose destination is dest, given the states before
\* and after it
ParentsOutcome(f, g, args, dest, exc, result) ==
    IF args.make_parents
    THEN /\ exc = NoExc
         /\ result = PathValue(dest)
         /\ \A q \in Prefixes(dest) : IsDir(g, q)
         /\ IsFile(g, dest)
         /\ Kept(f, g)
    ELSE /\ exc = Exc("FileNotFoundError",
                      "Cannot create regular file: {}. Set make_parents=True", dest)
         /\ g = f

C8_RecipesBeforeConfigs ==
    [][last'.op = "_cp" =>
        LET file == last'.args.file
            written == last'.result.value
        IN  /\ CpInvalidName(last'.exc) <=> ~Resolvable(file)
            /\ CpInvalidName(last'.exc) => fs' = fs
            /\ last'.result # None =>
                /\ fs'[written].content \in
                        (IF HasRecipe(file) THEN RecipeSources(file) ELSE ConfigSources(file))
                /\ NameSuffix(PathName(written)) = (IF HasRecipe(file) THEN PY ELSE YAML)
            /\ last'.exc.kind = "FileNotFoundError" =>
                NameSuffix(PathName(last'.exc.arg)) = (IF HasRecipe(file) THEN PY ELSE YAML)]_vars

\* A recipe's file copied although an earlier recipe of the registry has a
\* config of the same name
C8_Witness ==
    /\ last.op = "_cp"
    /\ last.result # None
    /\ HasRecipe(last.args.file)
    /\ \E i, k \in DOMAIN registry :
        /\ i < k
        /\ registry[k].name = last.args.file
        /\ \E j \in DOMAIN registry[i].configs : registry[i].configs[j].name = last.args.file
    /\ fs[last.result.value].content \in RecipeSources(last.args.file)

(***************************************************************************)
(* Properties of the downloader                                            *)
(***************************************************************************)
HubFunctions ==
    {"snapshot_download", "parse_model_handle", "set_kaggle_credentials", "model_download"}

\* C9: a download whose source is neither "huggingface" nor "kaggle" fails
\* with the invalid-argument error, and the call makes no hub call, parses no
\* handle and writes nothing, whatever the hub would have answered.
C9_InvalidSourceDoesNothing ==
    [][(last'.op = "_download" /\ last'.args.request.source \notin {"huggingface", "kaggle"})
        => /\ last'.exc = Exc("ValueError", "Invalid source: {}. Must be 'huggingface' or 'kaggle'",
                              <<last'.args.request.source>>)
           /\ last'.result = None
           /\ calls' = NoCall
           /\ fs' = fs]_vars

\* An invalid source refused where the hub would have delivered, after a
\* download that did write
C9_Witness ==
    /\ last.op = "_download"
    /\ last.args.request.source = "hf"
    /\ last.args.env.snap = "ok"
    /\ last.args.env.md = "ok"
    /\ last.exc.kind = "ValueError"
    /\ calls = NoCall
    /\ \E p \in DOMAIN fs : IsFile(fs, p)

\* The calls of the last operation into fn
CallsOf(fn) == {i \in DOMAIN calls : calls[i].fn = fn}

KaggleDownload ==
    /\ last.op = "_download"
    /\ last.args.request.source = "kaggle"
    /\ handle_parses(Split(last.args.request.repo_id, "/"))

\* C11: a kaggle download with a parseable handle sets the credentials when
\* one is supplied, each explicit one as given and each missing one from the
\* environment, and leaves the environment's to the hub otherwise; whether or
\* not setting them fails, model_download is the last call made; 401 and 403
\* give the access-denied error, 404 the model-not-found error, every other
\* failure a RuntimeError.
C11_KaggleCredentialsAndErrors ==
    KaggleDownload =>
        LET request == last.args.request
            env == last.args.env
            supplied == request.kaggle_username # NoStr \/ request.kaggle_api_key # NoStr
            username == IF request.kaggle_username # NoStr THEN request.kaggle_username
                        ELSE env.environ.KAGGLE_USERNAME
            api_key == IF request.kaggle_api_key # NoStr THEN request.kaggle_api_key
                       ELSE env.environ.KAGGLE_KEY
        IN  /\ supplied => \E i \in CallsOf("set_kaggle_credentials") :
                                calls[i].target = <<username, api_key>>
            /\ ~supplied => CallsOf("set_kaggle_credentials") = {}
            /\ calls # <<>> /\ calls[Len(calls)].fn = "model_download"
            /\ env.md \in {"401", "403"}
                    => /\ last.exc.kind = "ValueError"
                       /\ last.exc.fmt = "Access denied. Please provide valid Kaggle credentials"
            /\ env.md = "404"
                    => last.exc = Exc("ValueError", "Model '{}' not found on Kaggle Model Hub",
                                      request.repo_id)
            /\ env.md \in {"500", "fail"}
                    => last.exc = Exc("RuntimeError", "Failed to download {}: ...", request.repo_id)
            /\ env.md = "ok" /\ ~Raised(last.exc) => last.result.tag = "Paths"

\* Only the key is supplied, setting the credentials fails, and the hub
\* answers 403
C11_Witness ==
    /\ KaggleDownload
    /\ last.args.request.kaggle_username = NoStr
    /\ last.args.request.kaggle_api_key # NoStr
    /\ last.args.env.environ = SetEnviron
    /\ last.args.env.cred = "fail"
    /\ last.args.env.md = "403"
    /\ CallsOf("model_download") # {}
    /\ last.exc.kind = "ValueError"

(***************************************************************************)
(* Properties of the listings                                              *)
(***************************************************************************)
Registered(recipe_name) == \E i \in DOMAIN registry : registry[i].name = recipe_name

UnregisteredListing ==
    /\ last.op \in {"_list_recipe_configs", "_list_recipe_config_paths", "_list_recipe_models"}
    /\ last.args.ext = "ok"
    /\ ~Registered(last.args.recipe_name)

\* C12: for a name that no recipe of the registry has, each of
\* _list_recipe_configs, _list_recipe_config_paths and _list_recipe_models
\* raises the not-found error naming the recipe and returns nothing.
C12_UnregisteredRecipeNotFound ==
    UnregisteredListing
        => /\ last.exc = Exc("ValueError", "Recipe not found: {}", last.args.recipe_name)
           /\ last.result = None

\* The models of a recipe asked of a registry that holds another one
C12_Witness ==
    /\ UnregisteredListing
    /\ last.op = "_list_recipe_models"
    /\ registry # <<>>
    /\ last.exc.kind = "ValueError"

(***************************************************************************)
(* Properties of the facade                                                *)
(***************************************************************************)
\* C2: whatever exception the operation behind a handler raises, the answer
\* is the HTTP error with body {"detail": str(e)}, with status 500 from
\* GET /recipes and 400 from every other endpoint.
C2_ExceptionsBecomeHTTPErrors ==
    (last.op \in Endpoints /\ Raised(last.exc))
        => /\ response.status = (IF last.op = "GET /recipes" THEN 500 ELSE 400)
           /\ response.tag = "detail"
           /\ response.detail = [fmt |-> last.exc.fmt, arg |-> last.exc.arg]

\* The registry failing under GET /recipes
C2_Witness ==
    /\ last.op = "GET /recipes"
    /\ Raised(last.exc)
    /\ response.status = 500
    /\ response.tag = "detail"

\* C10: GET /configs for a recipe registered with at least one config is
\* answered 200 with {configs: M}, M mapping each config name of the recipe
\* to that config's relative file path.
C10_ConfigsMapNamesToPaths ==
    (/\ last.op = "GET /configs"
     /\ last.args.ext = "ok"
     /\ FirstNamed(registry, last.args.request.recipe) # 0
     /\ registry[FirstNamed(registry, last.args.request.recipe)].configs # <<>>)
        => LET cs == registry[FirstNamed(registry, last.args.request.recipe)].configs
           IN  /\ response.status = 200
               /\ response.tag = "json"
               /\ response.value.tag = "Dict"
               /\ response.value.value.configs.tag = "Dict"
               /\ DOMAIN response.value.value.configs.value = {cs[i].name : i \in DOMAIN cs}
               /\ \A i \in DOMAIN cs :
                    response.value.value.configs.value[cs[i].name] = cs[i].file_path

\* C13: GET /models for a registered recipe is answered 200 with the model
\* families of the recipe: the part of each config name before its first
\* "/", each once, in lexicographic order.
C13_ModelsAreSortedFamilies ==
    (/\ last.op = "GET /models"
     /\ last.args.ext = "ok"
     /\ FirstNamed(registry, last.args.request.recipe) # 0)
        => LET cs == registry[FirstNamed(registry, last.args.request.recipe)].configs
               families == {Split(cs[i].name, "/")[1] : i \in DOMAIN cs}
               models == response.value.value.models.value
           IN  /\ response.status = 200
               /\ response.tag = "json"
               /\ response.value.tag = "Dict"
               /\ Len(models) = Cardinality(families)
               /\ {models[i] : i \in DOMAIN models} = families
               /\ \A i, j \in DOMAIN models : i < j => StrLess(models[i], models[j])

\* C16: POST /validate is answered 200 with an empty body when the file
\* loads and passes config.validate; a missing file is the not-found error
\* as it was raised, a config that config.validate rejects is the
\* invalid-config error, and every failure is answered 400.
C16_ValidateAnswers ==
    last.op = "POST /validate"
        => /\ (last.args.state = "mapping" /\ last.args.check = "ok") => response = EmptyOK
           /\ last.args.state = "missing"
                => last.exc.kind = "FileNotFoundError" /\ response.status = 400
           /\ (last.args.state = "mapping" /\ last.args.check = "ConfigError")
                => /\ last.exc = Exc("ValueError", "Invalid config: ...", NoStr)
                   /\ response.status = 400
           /\ Raised(last.exc) => response.status = 400

(***************************************************************************)
(* Properties of the configuration operations                              *)
(***************************************************************************)
\* C14: _get_config_settings of a file name raises the not-found error when
\* the file does not exist, raises (and does not return settings) when the
\* file is an empty document, and raises when the file is not valid YAML.
C14_SettingsFailuresKeepTheirKind ==
    (last.op = "_get_config_settings" /\ last.args.config_name.tag = "Path")
        => /\ last.args.state = "missing" => last.exc.kind = "FileNotFoundError"
           /\ last.args.state = "empty" => Raised(last.exc) /\ last.result = None
           /\ last.args.state = "invalid" => Raised(last.exc) /\ last.result = None

====
